---------------------------- MODULE Spec2Model ----------------------------
(***************************************************************************)
(* A model of src/plot/visualize.py: the loader/cleaner (read_csv_clean),  *)
(* the series extractor (per_trial_xy), the limit computer                 *)
(* (compute_global_limits), the renderer (plot_single_method) and the      *)
(* pipeline that main() runs over them.                                    *)
(*                                                                         *)
(* Floats are modelled on a fixed-point grid: the integer n stands for the *)
(* float n / ONE.  ONE is a multiple of 1000 and of every column count, so *)
(* that 1e-3 and every row mean of grid values are grid values.  +inf,     *)
(* -inf and NaN are three values outside the grid; every comparison and    *)
(* every arithmetic step goes through the operators below, which give them *)
(* their IEEE meaning.                                                     *)
(***************************************************************************)
EXTENDS Integers, Sequences, FiniteSets, TLC

VARIABLES pc, argv, datasets, limits, written, inp, out

vars == <<pc, argv, datasets, limits, written, inp, out>>

(***************************************************************************)
(* Bounds of the model.                                                    *)
(***************************************************************************)
\* trial columns of a table given to per_trial_xy or read by main()
MaxCols == 2
\* rows of the file given to read_csv_clean on its own
MaxRawRows == 3
\* rows of the table given to per_trial_xy on its own
MaxXYRows == 3
\* the datasets given to compute_global_limits on their own: the number of
\* tables, and their size, the sum over the tables of
\* max(1, rows) * max(1, trial columns)
MaxTables == 2
MaxSize == 3
\* input files of a run of main(), and the rows of each
MaxFiles == 2
MaxRows == 1

(***************************************************************************)
(* Floats.                                                                 *)
(***************************************************************************)
RECURSIVE Fact(_)
Fact(n) == IF n <= 1 THEN 1 ELSE n * Fact(n - 1)

Scale == 2 * Fact(MaxCols) * Fact(MaxSize)
\* 1.0, 1e-3 and 0.0 on the grid
ONE == 1000 * Scale
MILLI == Scale
ZERO == 0
\* 1e-12 lies below the grid's step: it is the grid's smallest positive
\* value, which is below 1e-3 and below every positive cell and row mean
EPS == 1

Inf == 1000000000
NegInf == -1000000000
NaN == 2000000000

IsNaN(a) == a = NaN
IsFinite(a) == a # NaN /\ a # Inf /\ a # NegInf

\* a < b, a <= b, a == b, a > b of two floats: False when either is NaN
Lt(a, b) == ~IsNaN(a) /\ ~IsNaN(b) /\ a < b
Le(a, b) == ~IsNaN(a) /\ ~IsNaN(b) /\ a <= b
Eq(a, b) == ~IsNaN(a) /\ ~IsNaN(b) /\ a = b
Gt(a, b) == Lt(b, a)

\* Python's builtin min(a, b) and max(a, b): the first argument unless the
\* second compares strictly below (above) it
PyMin(a, b) == IF Lt(b, a) THEN b ELSE a
PyMax(a, b) == IF Gt(b, a) THEN b ELSE a

\* a - b
Sub(a, b) ==
    IF IsNaN(a) \/ IsNaN(b) THEN NaN
    ELSE IF a = Inf THEN (IF b = Inf THEN NaN ELSE Inf)
    ELSE IF a = NegInf THEN (IF b = NegInf THEN NaN ELSE NegInf)
    ELSE IF b = Inf THEN NegInf
    ELSE IF b = NegInf THEN Inf
    ELSE a - b

\* a + b
Add(a, b) ==
    IF IsNaN(a) \/ IsNaN(b) THEN NaN
    ELSE IF a = Inf THEN (IF b = NegInf THEN NaN ELSE Inf)
    ELSE IF a = NegInf THEN (IF b = Inf THEN NaN ELSE NegInf)
    ELSE IF b = Inf \/ b = NegInf THEN b
    ELSE a + b

\* a / k for a count k >= 1
DivCount(a, k) == IF IsFinite(a) THEN a \div k ELSE a

(***************************************************************************)
(* Sequences.                                                              *)
(***************************************************************************)
Range(s) == {s[i] : i \in 1..Len(s)}

RECURSIVE SeqSum(_)
SeqSum(s) == IF s = <<>> THEN ZERO ELSE Add(Head(s), SeqSum(Tail(s)))

\* the sequences over S of length 0..n
SeqsUpTo(S, n) == UNION {[1..k -> S] : k \in 0..n}

\* np.nanmin / np.nanmax of a non-empty array: NaN entries are skipped, and
\* the result is NaN when every entry is NaN
NanMin(s) ==
    LET v == {s[i] : i \in 1..Len(s)} \ {NaN}
    IN  IF v = {} THEN NaN ELSE CHOOSE m \in v : \A w \in v : m <= w

NanMax(s) ==
    LET v == {s[i] : i \in 1..Len(s)} \ {NaN}
    IN  IF v = {} THEN NaN ELSE CHOOSE m \in v : \A w \in v : m >= w

(***************************************************************************)
(* Cells of a CSV file are text; pd.to_numeric(errors="coerce") parses a   *)
(* cell to a float, or to NaN when it is no number.                        *)
(***************************************************************************)
to_numeric(s) ==
    CASE s = "0" -> ZERO
      [] s = "1" -> ONE
      [] s = "2" -> 2 * ONE
      [] s = "3" -> 3 * ONE
      [] s = "10" -> 10 * ONE
      [] s = "-1" -> 0 - ONE
      [] s = "inf" -> Inf
      [] s = "-inf" -> NegInf
      [] OTHER -> NaN

(***************************************************************************)
(* A file is [hasCol, ncols, rows]: whether its header has the NoOfEvals   *)
(* column, the number of its other (trial) columns, and its rows, each     *)
(* [NoOfEvals, t]: the NoOfEvals cell and the sequence of the trial cells. *)
(* A table (DataFrame) is [ncols, rows] with NoOfEvals a float.            *)
(***************************************************************************)
\* df["NoOfEvals"] = pd.to_numeric(df["NoOfEvals"], errors="coerce")
CoerceEvals(rows) ==
    [i \in 1..Len(rows) |-> [NoOfEvals |-> to_numeric(rows[i].NoOfEvals), t |-> rows[i].t]]

\* df.dropna(subset=["NoOfEvals"])
NotNaNRow(r) == ~IsNaN(r.NoOfEvals)

DropNa(rows) == SelectSeq(rows, NotNaNRow)

\* s with its entries taken in the order p[1], p[2], ...
Permuted(s, p) == [i \in 1..Len(s) |-> s[p[i]]]

IsSortedByEvals(rows) ==
    \A i \in 1..Len(rows) - 1 : rows[i].NoOfEvals <= rows[i + 1].NoOfEvals

\* df.sort_values("NoOfEvals"): the default kind is "quicksort", which is not
\* a stable sort, so rows of equal NoOfEvals come out in any order
SortValues(rows) ==
    {s \in {Permuted(rows, p) : p \in Permutations(1..Len(rows))} : IsSortedByEvals(s)}

\* .drop_duplicates(subset=["NoOfEvals"], keep="last").reset_index(drop=True)
DropDuplicatesLast(rows) ==
    LET keep(i) == \A j \in (i + 1)..Len(rows) : rows[j].NoOfEvals # rows[i].NoOfEvals
        F[i \in 0..Len(rows)] ==
            IF i = 0 THEN <<>>
            ELSE IF keep(i) THEN Append(F[i - 1], rows[i]) ELSE F[i - 1]
    IN  F[Len(rows)]

\* a faulty read_csv_clean: the rows are sorted and not deduplicated
ReadCsvCleanNoDedup(file) ==
    {[ncols |-> file.ncols, rows |-> s] : s \in SortValues(DropNa(CoerceEvals(file.rows)))}

\* The tables read_csv_clean(path) can return for a file that has the
\* NoOfEvals column (lines 14-20; the diagnostics of lines 22-32 only print)
read_csv_clean(file) ==
    {[ncols |-> file.ncols, rows |-> DropDuplicatesLast(s)] :
        s \in SortValues(DropNa(CoerceEvals(file.rows)))}

(***************************************************************************)
(* trial_columns: the columns other than NoOfEvals, here by position.      *)
(***************************************************************************)
trial_columns(df) == [c \in 1..df.ncols |-> c]

\* the positions of s, in order, whose entry is not NaN  (mask = y.notna())
NotNaPositions(s) ==
    LET F[i \in 0..Len(s)] ==
            IF i = 0 THEN <<>>
            ELSE IF ~IsNaN(s[i]) THEN Append(F[i - 1], i) ELSE F[i - 1]
    IN  F[Len(s)]

\* pd.to_numeric(df[col], errors="coerce")
NumericColumn(df, col) == [i \in 1..Len(df.rows) |-> to_numeric(df.rows[i].t[col])]

\* x - float(x.iloc[0])
Rebased(x) == [k \in 1..Len(x) |-> Sub(x[k], x[1])]

\* pd.RangeIndex(0, n) and np.arange(n)
RangeIndex(n) == [k \in 1..n |-> (k - 1) * ONE]

\* a faulty per_trial_xy: x is taken from every row, not from the rows kept
PerTrialXYUnmasked(df, col, rebase, use_index) ==
    LET ycol == NumericColumn(df, col)
        keep == NotNaPositions(ycol)
        y == [k \in 1..Len(keep) |-> ycol[keep[k]]]
        evals == [k \in 1..Len(df.rows) |-> df.rows[k].NoOfEvals]
        x == IF use_index THEN RangeIndex(Len(df.rows))
             ELSE IF rebase /\ Len(evals) > 0 THEN Rebased(evals)
             ELSE evals
    IN  [x |-> x, y |-> y]

\* per_trial_xy (lines 40-50)
per_trial_xy(df, col, rebase, use_index) ==
    LET ycol == NumericColumn(df, col)
        keep == NotNaPositions(ycol)
        y == [k \in 1..Len(keep) |-> ycol[keep[k]]]
        evals == [k \in 1..Len(keep) |-> df.rows[keep[k]].NoOfEvals]
        x == IF use_index THEN RangeIndex(Len(y))
             ELSE IF rebase /\ Len(evals) > 0 THEN Rebased(evals)
             ELSE evals
    IN  [x |-> x, y |-> y]

(***************************************************************************)
(* The mean curve of a table: aligned[cols].mean(axis=1, skipna=True) over *)
(* the coerced trial columns, against the row index or the raw NoOfEvals.  *)
(***************************************************************************)
RowMean(cells) ==
    LET v == [c \in 1..Len(cells) |-> to_numeric(cells[c])]
        keep == NotNaPositions(v)
        kept == [k \in 1..Len(keep) |-> v[keep[k]]]
    IN  IF Len(kept) = 0 THEN NaN ELSE DivCount(SeqSum(kept), Len(kept))

mean_xy(df, use_index) ==
    LET y == [i \in 1..Len(df.rows) |-> RowMean(df.rows[i].t)]
        x == IF use_index THEN RangeIndex(Len(y))
             ELSE [i \in 1..Len(df.rows) |-> df.rows[i].NoOfEvals]
    IN  [x |-> x, y |-> y]

(***************************************************************************)
(* compute_global_limits.  A running limit is [xmin, xmax, ymin, ymax].    *)
(***************************************************************************)
InitialLimits == [xmin |-> Inf, xmax |-> NegInf, ymin |-> Inf, ymax |-> NegInf]

\* ypos = y[y > 0]
IsPositive(v) == Gt(v, ZERO)

Positive(y) == SelectSeq(y, IsPositive)

\* a faulty update: under log scale y is folded without the y > 0 filter
UpdateLimitsLogUnfiltered(lim, s, logy) ==
    LET withX == IF Len(s.x) > 0
                 THEN [lim EXCEPT !.xmin = PyMin(@, NanMin(s.x)),
                                  !.xmax = PyMax(@, NanMax(s.x))]
                 ELSE lim
    IN  IF Len(s.y) > 0
        THEN [withX EXCEPT !.ymin = PyMin(@, NanMin(s.y)),
                           !.ymax = PyMax(@, NanMax(s.y))]
        ELSE withX

\* the "update limits" block, the same at lines 78-89 and 93-104
UpdateLimits(lim, s, logy) ==
    LET withX == IF Len(s.x) > 0
                 THEN [lim EXCEPT !.xmin = PyMin(@, NanMin(s.x)),
                                  !.xmax = PyMax(@, NanMax(s.x))]
                 ELSE lim
        ypos == Positive(s.y)
    IN  IF Len(s.y) > 0
        THEN IF logy
             THEN IF Len(ypos) > 0
                  THEN [withX EXCEPT !.ymin = PyMin(@, NanMin(ypos)),
                                     !.ymax = PyMax(@, NanMax(ypos))]
                  ELSE withX
             ELSE [withX EXCEPT !.ymin = PyMin(@, NanMin(s.y)),
                                !.ymax = PyMax(@, NanMax(s.y))]
        ELSE withX

\* a faulty loop body: in mean-only mode the mean curve's x is rebased
TableLimitsMeanRebased(lim, df, logy, mean_only, rebase_per_trial, x_as_index) ==
    LET cols == trial_columns(df)
        m == mean_xy(df, x_as_index)
        F[c \in 0..Len(cols)] ==
            IF c = 0 THEN lim
            ELSE UpdateLimits(F[c - 1],
                              per_trial_xy(df, cols[c], rebase_per_trial, x_as_index), logy)
    IN  IF Len(cols) = 0 THEN lim
        ELSE IF mean_only
             THEN UpdateLimits(lim,
                               IF rebase_per_trial /\ ~x_as_index /\ Len(m.x) > 0
                               THEN [x |-> Rebased(m.x), y |-> m.y] ELSE m, logy)
             ELSE F[Len(cols)]

\* the body of "for label, df in datasets" (lines 62-104)
TableLimits(lim, df, logy, mean_only, rebase_per_trial, x_as_index) ==
    LET cols == trial_columns(df)
        F[c \in 0..Len(cols)] ==
            IF c = 0 THEN lim
            ELSE UpdateLimits(F[c - 1],
                              per_trial_xy(df, cols[c], rebase_per_trial, x_as_index), logy)
    IN  IF Len(cols) = 0 THEN lim
        ELSE IF mean_only
             THEN UpdateLimits(lim, mean_xy(df, x_as_index), logy)
             ELSE F[Len(cols)]

\* the running limits after the loop over the datasets
FoldedLimits(ds, logy, mean_only, rebase_per_trial, x_as_index) ==
    LET F[i \in 0..Len(ds)] ==
            IF i = 0 THEN InitialLimits
            ELSE TableLimits(F[i - 1], ds[i].df, logy, mean_only, rebase_per_trial, x_as_index)
    IN  F[Len(ds)]

\* "Fallbacks if nothing valid" (lines 110-113)
XFallback(lim) == ~IsFinite(lim.xmin) \/ ~IsFinite(lim.xmax) \/ Eq(lim.xmin, lim.xmax)
YFallback(lim) == ~IsFinite(lim.ymin) \/ ~IsFinite(lim.ymax) \/ Eq(lim.ymin, lim.ymax)

DefaultYMin(logy) == IF logy THEN MILLI ELSE ZERO

\* faulty fallbacks: a range of a single value is kept
FallbacksNoDegenerate(lim, logy) ==
    LET xf == ~IsFinite(lim.xmin) \/ ~IsFinite(lim.xmax)
        yf == ~IsFinite(lim.ymin) \/ ~IsFinite(lim.ymax)
    IN  [xmin |-> IF xf THEN ZERO ELSE lim.xmin,
         xmax |-> IF xf THEN ONE ELSE lim.xmax,
         ymin |-> IF yf THEN DefaultYMin(logy) ELSE lim.ymin,
         ymax |-> IF yf THEN ONE ELSE lim.ymax]

Fallbacks(lim, logy) ==
    [xmin |-> IF XFallback(lim) THEN ZERO ELSE lim.xmin,
     xmax |-> IF XFallback(lim) THEN ONE ELSE lim.xmax,
     ymin |-> IF YFallback(lim) THEN DefaultYMin(logy) ELSE lim.ymin,
     ymax |-> IF YFallback(lim) THEN ONE ELSE lim.ymax]

compute_global_limits(ds, logy, mean_only, rebase_per_trial, x_as_index) ==
    Fallbacks(FoldedLimits(ds, logy, mean_only, rebase_per_trial, x_as_index), logy)

(***************************************************************************)
(* plot_single_method.  A chart is what one call draws and saves: the      *)
(* output path, the per-trial series, the mean series (none or one), and   *)
(* the axis limits handed to plt.xlim and plt.ylim.                        *)
(***************************************************************************)
\* "if logy and ymin <= 0" (line 179)
ClampTaken(ymin, logy) == logy /\ Le(ymin, ZERO)

\* the ymin handed to plt.ylim (lines 179-181)
ClampedYMin(ymin, logy) == IF ClampTaken(ymin, logy) THEN PyMax(ymin, EPS) ELSE ymin

plot_single_method(df, lim, logy, mean_only, show_mean, rebase_per_trial, x_as_index, output_path) ==
    LET cols == trial_columns(df)
    IN  [name |-> output_path,
         trials |-> IF ~mean_only
                    THEN [c \in 1..Len(cols) |->
                             per_trial_xy(df, cols[c], rebase_per_trial, x_as_index)]
                    ELSE <<>>,
         mean |-> IF show_mean \/ mean_only THEN <<mean_xy(df, x_as_index)>> ELSE <<>>,
         xlim |-> <<lim.xmin, lim.xmax>>,
         ylim |-> <<ClampedYMin(lim.ymin, logy), lim.ymax>>]

(***************************************************************************)
(* main().  argv is the parsed command line: files, each [stem, csv] (the  *)
(* base name of its path and its content), labels (empty when not given)   *)
(* and the five flags.  A label is a sequence of characters.               *)
(***************************************************************************)
\* labels = args.labels if (args.labels and len(args.labels) == len(files))
\*          else [f.stem for f in files]
LabelsOf(a) ==
    IF Len(a.labels) > 0 /\ Len(a.labels) = Len(a.files)
    THEN a.labels
    ELSE [i \in 1..Len(a.files) |-> a.files[i].stem]

\* outdir / f"{label.replace(' ', '_')}.png"
Outfile(label) ==
    [k \in 1..Len(label) |-> IF label[k] = " " THEN "_" ELSE label[k]] \o <<".png">>

\* the files the output directory holds after the savefig calls so far
OutputDir == {written[i].name : i \in 1..Len(written)}

NoCall == [fn |-> "none"]

\* read_csv_clean raises ValueError (lines 11-12): the run ends
LoadRaises ==
    /\ pc = "load"
    /\ ~argv.files[Len(datasets) + 1].csv.hasCol
    /\ pc' = "error"
    /\ UNCHANGED <<argv, datasets, limits, written, inp, out>>

\* a faulty load: the run goes on to the limits after its first file
LoadReturnsLimitsFirst ==
    /\ pc = "load"
    /\ argv.files[Len(datasets) + 1].csv.hasCol
    /\ \E df \in read_csv_clean(argv.files[Len(datasets) + 1].csv) :
          datasets' = Append(datasets,
                             [label |-> LabelsOf(argv)[Len(datasets) + 1], df |-> df])
    /\ pc' = "limits"
    /\ UNCHANGED <<argv, limits, written, inp, out>>

\* the next element of the list comprehension of line 207
LoadReturns ==
    /\ pc = "load"
    /\ argv.files[Len(datasets) + 1].csv.hasCol
    /\ \E df \in read_csv_clean(argv.files[Len(datasets) + 1].csv) :
          datasets' = Append(datasets,
                             [label |-> LabelsOf(argv)[Len(datasets) + 1], df |-> df])
    /\ pc' = IF Len(datasets) + 1 = Len(argv.files) THEN "limits" ELSE "load"
    /\ UNCHANGED <<argv, limits, written, inp, out>>

\* lines 210-216
ComputeGlobalLimits ==
    /\ pc = "limits"
    /\ limits' = compute_global_limits(datasets, ~argv.no_logy, argv.mean_only,
                                        argv.rebase_per_trial, argv.x_as_index)
    /\ pc' = "plot"
    /\ UNCHANGED <<argv, datasets, written, inp, out>>

\* one turn of the loop of lines 220-236
PlotSingleMethod ==
    /\ pc = "plot"
    /\ Len(written) < Len(datasets)
    /\ written' = Append(written,
            plot_single_method(datasets[Len(written) + 1].df, limits, ~argv.no_logy,
                               argv.mean_only, argv.show_mean, argv.rebase_per_trial,
                               argv.x_as_index, Outfile(datasets[Len(written) + 1].label)))
    /\ pc' = IF Len(written) + 1 = Len(datasets) THEN "done" ELSE "plot"
    /\ UNCHANGED <<argv, datasets, limits, inp, out>>

\* a call of per_trial_xy on its own
PerTrialXY ==
    /\ pc = "call"
    /\ inp.fn = "per_trial_xy"
    /\ out' = per_trial_xy(inp.df, inp.col, inp.rebase, inp.use_index)
    /\ pc' = "ret"
    /\ UNCHANGED <<argv, datasets, limits, written, inp>>

(***************************************************************************)
(* Inputs.                                                                 *)
(***************************************************************************)
Flags == [no_logy : BOOLEAN, mean_only : BOOLEAN, show_mean : BOOLEAN,
          rebase_per_trial : BOOLEAN, x_as_index : BOOLEAN]

WithFlags(files, labels, f) ==
    [files |-> files, labels |-> labels, no_logy |-> f.no_logy, mean_only |-> f.mean_only,
     show_mean |-> f.show_mean, rebase_per_trial |-> f.rebase_per_trial,
     x_as_index |-> f.x_as_index]

\* the rows of a file: up to n rows of an evaluation-count cell out of E and
\* c trial cells out of V
RawRows(E, V, c, n) == SeqsUpTo([NoOfEvals : E, t : [1..c -> V]], n)

\* the strictly increasing sequence of the numbers of S
SortedSeq(S) ==
    CHOOSE s \in [1..Cardinality(S) -> S] : \A i, j \in 1..Cardinality(S) : i < j => s[i] < s[j]

\* the tables read_csv_clean returns: NoOfEvals strictly increasing out of E,
\* r rows with r in R, c trial columns of cells out of V
CleanTables(E, V, R, c) ==
    UNION {{[ncols |-> c,
             rows |-> [i \in 1..Cardinality(S) |-> [NoOfEvals |-> SortedSeq(S)[i], t |-> ts[i]]]] :
               ts \in [1..Cardinality(S) -> [1..c -> V]]} :
           S \in {T \in SUBSET E : Cardinality(T) \in R}}

Cost(df) ==
    (IF Len(df.rows) = 0 THEN 1 ELSE Len(df.rows)) * (IF df.ncols = 0 THEN 1 ELSE df.ncols)

LimitEvals == {ONE, 2 * ONE}
LimitCells == {"n/a", "0", "1", "2"}

TablesOfCost(n) ==
    UNION {CleanTables(LimitEvals, LimitCells, {r \in 0..n : Cost([ncols |-> c, rows |-> [i \in 1..r |-> 0]]) <= n}, c) :
           c \in 0..n}

RECURSIVE SizeOf(_)
SizeOf(ds) == IF ds = <<>> THEN 0 ELSE Cost(Head(ds).df) + SizeOf(Tail(ds))

\* a load of main() whose file is not modelled: read_csv_clean returns some
\* table (line 207); the tables still to come are left a size of one each
LoadTable ==
    /\ pc = "load"
    /\ \E df \in TablesOfCost(MaxSize - SizeOf(datasets)
                                - (Len(argv.files) - Len(datasets) - 1)) :
          datasets' = Append(datasets,
                             [label |-> LabelsOf(argv)[Len(datasets) + 1], df |-> df])
    /\ pc' = IF Len(datasets) + 1 = Len(argv.files) THEN "limits" ELSE "load"
    /\ UNCHANGED <<argv, limits, written, inp, out>>

NoFlags == [no_logy |-> FALSE, mean_only |-> FALSE, show_mean |-> FALSE,
            rebase_per_trial |-> FALSE, x_as_index |-> FALSE]

(***************************************************************************)
(* Spec: a run of main() from the parsed command line.                     *)
(***************************************************************************)
MainStems == {<<"a">>, <<"b">>}
MainLabels == {<<"a", " ", "b">>, <<"a", "_", "b">>}
MainCsv ==
    {[hasCol |-> FALSE, ncols |-> 1, rows |-> <<>>]} \cup
    {[hasCol |-> TRUE, ncols |-> 1, rows |-> r] : r \in RawRows({"1"}, {"2"}, 1, MaxRows)}

Init ==
    /\ pc = "load"
    /\ \E files \in SeqsUpTo([stem : MainStems, csv : MainCsv], MaxFiles) \ {<<>>},
          labels \in SeqsUpTo(MainLabels, MaxFiles), f \in Flags :
          argv = WithFlags(files, labels, f)
    /\ datasets = <<>>
    /\ limits = InitialLimits
    /\ written = <<>>
    /\ inp = NoCall
    /\ out = NoCall

Next == LoadRaises \/ LoadReturns \/ ComputeGlobalLimits \/ PlotSingleMethod

Spec == Init /\ [][Next]_vars

(***************************************************************************)
(* SpecClean: read_csv_clean on one file, as the first load of main().     *)
(***************************************************************************)
CleanEvals == {"n/a", "-inf", "0", "10"}
CleanCells == {"1", "2", "3"}

InitClean ==
    /\ pc = "load"
    /\ \E r \in RawRows(CleanEvals, CleanCells, 1, MaxRawRows) :
          argv = WithFlags(<<[stem |-> <<"a">>,
                              csv |-> [hasCol |-> TRUE, ncols |-> 1, rows |-> r]]>>,
                           <<>>, NoFlags)
    /\ datasets = <<>>
    /\ limits = InitialLimits
    /\ written = <<>>
    /\ inp = NoCall
    /\ out = NoCall

NextClean == LoadReturns

SpecClean == InitClean /\ [][NextClean]_vars

(***************************************************************************)
(* SpecXY: per_trial_xy on one cleaned table and one of its columns.       *)
(***************************************************************************)
XYEvals == {NegInf, ONE, 2 * ONE, 3 * ONE}
XYCells == {"n/a", "2"}

InitXY ==
    /\ pc = "call"
    /\ \E c \in 1..MaxCols :
          \E df \in CleanTables(XYEvals, XYCells, 0..MaxXYRows, c), col \in 1..c,
             rebase \in BOOLEAN, use_index \in BOOLEAN :
             inp = [fn |-> "per_trial_xy", df |-> df, col |-> col,
                    rebase |-> rebase, use_index |-> use_index]
    /\ out = NoCall
    /\ argv = WithFlags(<<>>, <<>>, NoFlags)
    /\ datasets = <<>>
    /\ limits = InitialLimits
    /\ written = <<>>

NextXY == PerTrialXY

SpecXY == InitXY /\ [][NextXY]_vars

(***************************************************************************)
(* SpecLimits: main() over files whose content is drawn when they are      *)
(* loaded, up to the limits; SpecRender: the same up to the end of the run.*)
(***************************************************************************)
UnreadFiles(n) == [i \in 1..n |-> [stem |-> <<"a">>]]

InitLimits ==
    /\ pc = "load"
    /\ \E n \in 1..MaxTables, f \in {g \in Flags : ~g.show_mean} :
          argv = WithFlags(UnreadFiles(n), <<>>, f)
    /\ datasets = <<>>
    /\ limits = InitialLimits
    /\ written = <<>>
    /\ inp = NoCall
    /\ out = NoCall

NextLimits == LoadTable \/ ComputeGlobalLimits

SpecLimits == InitLimits /\ [][NextLimits]_vars

InitRender ==
    /\ pc = "load"
    /\ \E n \in 1..MaxTables, f \in Flags : argv = WithFlags(UnreadFiles(n), <<>>, f)
    /\ datasets = <<>>
    /\ limits = InitialLimits
    /\ written = <<>>
    /\ inp = NoCall
    /\ out = NoCall

NextRender == LoadTable \/ ComputeGlobalLimits \/ PlotSingleMethod

SpecRender == InitRender /\ [][NextRender]_vars

(***************************************************************************)
(* Claims.                                                                 *)
(***************************************************************************)
SetMin(S) == CHOOSE m \in S : \A w \in S : m <= w
SetMax(S) == CHOOSE m \in S : \A w \in S : m >= w

\* the text rows of the file at position i and the rows loaded from it
RawOf(i) == argv.files[i].csv.rows
CleanOf(i) == datasets[i].df.rows

\* C2: in every table read_csv_clean returns, NoOfEvals has no missing value
\* and is strictly increasing from row to row (so no value occurs twice).
C2_EvalsStrictlyIncreasing ==
    \A i \in 1..Len(datasets) :
        /\ \A k \in 1..Len(CleanOf(i)) : ~IsNaN(CleanOf(i)[k].NoOfEvals)
        /\ \A j, k \in 1..Len(CleanOf(i)) :
              j < k => Lt(CleanOf(i)[j].NoOfEvals, CleanOf(i)[k].NoOfEvals)

\* a file of three rows, out of order, with a duplicated evaluation count and
\* one that is no number, has been cleaned to a single row or two
C2_Witness ==
    /\ Len(datasets) = 1
    /\ Len(RawOf(1)) = 3
    /\ RawOf(1)[1].NoOfEvals = "10"
    /\ RawOf(1)[2].NoOfEvals \in {"0", "n/a"}
    /\ RawOf(1)[3].NoOfEvals = "0"
    /\ Len(CleanOf(1)) = 2

\* the last row of the file at position i whose evaluation count parses to e
LastOccurrence(i, e) ==
    SetMax({k \in 1..Len(RawOf(i)) : to_numeric(RawOf(i)[k].NoOfEvals) = e})

\* C3: the row read_csv_clean retains for an evaluation count is the last row
\* of the input, in the input's row order, that has this evaluation count.
C3_KeepsLastOccurrence ==
    \A i \in 1..Len(datasets) : \A k \in 1..Len(CleanOf(i)) :
        CleanOf(i)[k].t = RawOf(i)[LastOccurrence(i, CleanOf(i)[k].NoOfEvals)].t

\* C4: a chart is rendered, and the limits are computed, only after every
\* file has been loaded; a run that aborts on a file without the NoOfEvals
\* column has computed no limits and written no image, and a run with such a
\* file among its inputs never gets past the loads.
C4_AllLoadsBeforeLimitsAndCharts ==
    /\ pc \in {"limits", "plot", "done"} => Len(datasets) = Len(argv.files)
    /\ (limits # InitialLimits \/ written # <<>>) => Len(datasets) = Len(argv.files)
    /\ pc = "error" => limits = InitialLimits /\ written = <<>>
    /\ (\E i \in 1..Len(argv.files) : ~argv.files[i].csv.hasCol) =>
          /\ pc \in {"load", "error"}
          /\ pc = "load" => Len(datasets) < Len(argv.files)

\* the run aborted on its second file, after the first was loaded
C4_Witness ==
    /\ pc = "error"
    /\ Len(datasets) = 1
    /\ Len(argv.files) = 2
    /\ argv.files[1].csv.hasCol
    /\ ~argv.files[2].csv.hasCol

\* C5: a run whose files all have the column ends with one image file per
\* input table in the output directory, each named from the table's label
\* with spaces replaced by underscores.
C5_OneImagePerTable ==
    pc = "done" =>
        /\ Cardinality(OutputDir) = Len(argv.files)
        /\ \A i \in 1..Len(argv.files) : Outfile(LabelsOf(argv)[i]) \in OutputDir

\* the flags of the run
LogY == ~argv.no_logy

\* every series the chart draws
SeriesOf(chart) == Range(chart.trials) \cup Range(chart.mean)

Inside(v, lo, hi) == Le(lo, v) /\ Le(v, hi)

\* C1: every point drawn on a chart (per-trial points and mean points; a
\* point with a NaN coordinate is not drawn) lies inside the limits that
\* compute_global_limits returned, ymin taken after the log-scale clamp.
C1_LimitsContainDrawnPoints ==
    \A i \in 1..Len(written) : \A s \in SeriesOf(written[i]) : \A k \in 1..Len(s.x) :
        (k <= Len(s.y) /\ ~IsNaN(s.x[k]) /\ ~IsNaN(s.y[k])) =>
            /\ written[i].xlim = <<limits.xmin, limits.xmax>>
            /\ written[i].ylim = <<ClampedYMin(limits.ymin, LogY), limits.ymax>>
            /\ Inside(s.x[k], written[i].xlim[1], written[i].xlim[2])
            /\ Inside(s.y[k], written[i].ylim[1], written[i].ylim[2])

\* the rows of the column per_trial_xy was called on that parse to a number
Survivors == {i \in 1..Len(inp.df.rows) : ~IsNaN(to_numeric(inp.df.rows[i].t[inp.col]))}

\* C8: per_trial_xy returns x and y of the same length, the number of cells
\* of the column that parse to a number; y[k] is the k-th such cell's number,
\* never NaN, and x[k] belongs to the same row.
C8_SeriesAligned ==
    pc = "ret" =>
        /\ Len(out.x) = Len(out.y)
        /\ Len(out.y) = Cardinality(Survivors)
        /\ \A k \in 1..Len(out.y) :
              /\ ~IsNaN(out.y[k])
              /\ out.y[k] = to_numeric(inp.df.rows[SortedSeq(Survivors)[k]].t[inp.col])
        /\ \A k \in 1..Len(out.x) :
              out.x[k] = IF inp.use_index THEN (k - 1) * ONE
                         ELSE IF inp.rebase
                              THEN Sub(inp.df.rows[SortedSeq(Survivors)[k]].NoOfEvals,
                                       inp.df.rows[SortedSeq(Survivors)[1]].NoOfEvals)
                              ELSE inp.df.rows[SortedSeq(Survivors)[k]].NoOfEvals

\* a column of three rows whose first cell is no number: two points come back
C8_Witness ==
    /\ pc = "ret"
    /\ Len(inp.df.rows) = 3
    /\ Survivors = {2, 3}
    /\ Len(out.y) = 2
    /\ ~inp.use_index

\* C9: with rebase set and a non-empty series, the first x that per_trial_xy
\* returns is 0.
C9_RebasedStartsAtZero ==
    (pc = "ret" /\ inp.rebase /\ Len(out.x) > 0) => out.x[1] = ZERO

(***************************************************************************)
(* The series compute_global_limits scans, as a set, and the range of      *)
(* their values.                                                           *)
(***************************************************************************)
\* <<i, c>>: column c of table i, or <<i, 0>>: the mean curve of table i
Scanned ==
    IF argv.mean_only
    THEN {<<i, 0>> : i \in {j \in 1..Len(datasets) : datasets[j].df.ncols > 0}}
    ELSE UNION {{<<i, c>> : c \in 1..datasets[i].df.ncols} : i \in 1..Len(datasets)}

ScannedSeries ==
    [ic \in Scanned |->
        IF ic[2] = 0 THEN mean_xy(datasets[ic[1]].df, argv.x_as_index)
        ELSE per_trial_xy(datasets[ic[1]].df, ic[2], argv.rebase_per_trial, argv.x_as_index)]

\* the number of points scanned
NPoints(series) ==
    Cardinality(UNION {{<<ic, k>> : k \in 1..Len(series[ic].x)} : ic \in DOMAIN series})

\* the x values scanned, and the y values scanned: under log scale the
\* positive ones only
XValues(series) == UNION {Range(series[ic].x) : ic \in DOMAIN series} \ {NaN}

YValues(series) ==
    {v \in UNION {Range(series[ic].y) : ic \in DOMAIN series} \ {NaN} : LogY => v > ZERO}

\* no finite range, or one of a single value
NoRange(S) == S = {} \/ ~IsFinite(SetMin(S)) \/ ~IsFinite(SetMax(S)) \/ SetMin(S) = SetMax(S)

DefaultX == <<ZERO, ONE>>
DefaultY == <<IF LogY THEN MILLI ELSE ZERO, ONE>>

RangeOr(S, default) == IF NoRange(S) THEN default ELSE <<SetMin(S), SetMax(S)>>

\* C6: compute_global_limits returns the range of the scanned values, each
\* of x and y replaced by its default, (0, 1) for x and (1e-3, 1) under log
\* scale or (0, 1) under linear scale for y, exactly when it is not finite or
\* its min equals its max; so data with no point or a single point gets both
\* defaults.
C6_DefaultRanges ==
    pc = "plot" =>
        LET series == ScannedSeries
        IN  /\ <<limits.xmin, limits.xmax>> = RangeOr(XValues(series), DefaultX)
            /\ <<limits.ymin, limits.ymax>> = RangeOr(YValues(series), DefaultY)
            /\ NPoints(series) <= 1 =>
                  /\ <<limits.xmin, limits.xmax>> = DefaultX
                  /\ <<limits.ymin, limits.ymax>> = DefaultY

\* the data is the single point (2, 2), and the limits are the defaults
C6_Witness ==
    /\ pc = "plot"
    /\ NPoints(ScannedSeries) = 1
    /\ XValues(ScannedSeries) = {2 * ONE}
    /\ YValues(ScannedSeries) = {2 * ONE}
    /\ limits = [xmin |-> ZERO, xmax |-> ONE, ymin |-> DefaultY[1], ymax |-> ONE]

\* the points of the mean curves: for each table with a trial column and
\* each of its rows, the row's position or evaluation count, and the mean of
\* the row's cells that parse to a number
MeanPoints ==
    UNION {{<<IF argv.x_as_index THEN (k - 1) * ONE ELSE datasets[i].df.rows[k].NoOfEvals,
              RowMean(datasets[i].df.rows[k].t)>> : k \in 1..Len(datasets[i].df.rows)} :
           i \in {j \in 1..Len(datasets) : datasets[j].df.ncols > 0}}

MeanX(points) == {p[1] : p \in points} \ {NaN}
MeanY(points) == {v \in {p[2] : p \in points} \ {NaN} : LogY => v > ZERO}

\* the numbers in the trial cells of the tables
TrialValues ==
    UNION {UNION {{to_numeric(datasets[i].df.rows[k].t[c]) : c \in 1..datasets[i].df.ncols} :
                  k \in 1..Len(datasets[i].df.rows)} : i \in 1..Len(datasets)} \ {NaN}

\* C7: in mean-only mode the limits are the range of the mean curves' points
\* alone (or its defaults), and are the same with the rebase flag the other
\* way.
C7_MeanOnlyLimits ==
    (pc = "plot" /\ argv.mean_only) =>
        LET points == MeanPoints
        IN  /\ <<limits.xmin, limits.xmax>> = RangeOr(MeanX(points), DefaultX)
            /\ <<limits.ymin, limits.ymax>> = RangeOr(MeanY(points), DefaultY)
            /\ limits = compute_global_limits(datasets, LogY, TRUE, ~argv.rebase_per_trial,
                                               argv.x_as_index)

\* mean-only with rebase set: x runs from the first evaluation count, not
\* from 0, and a trial value lies below the y range of the means
C7_Witness ==
    /\ pc = "plot"
    /\ argv.mean_only /\ argv.rebase_per_trial /\ ~argv.x_as_index
    /\ ~NoRange(MeanX(MeanPoints)) /\ ~NoRange(MeanY(MeanPoints))
    /\ limits.xmin = ONE
    /\ \E v \in TrialValues : v > ZERO /\ v < limits.ymin

\* C10: the limits compute_global_limits returns are finite, xmin < xmax,
\* ymin < ymax, and ymin > 0 under log scale, so that plot_single_method's
\* clamp of ymin is not taken.
C10_LimitsWellFormed ==
    pc = "plot" =>
        /\ IsFinite(limits.xmin) /\ IsFinite(limits.xmax)
        /\ IsFinite(limits.ymin) /\ IsFinite(limits.ymax)
        /\ Lt(limits.xmin, limits.xmax)
        /\ Lt(limits.ymin, limits.ymax)
        /\ LogY => Gt(limits.ymin, ZERO)
        /\ ~ClampTaken(limits.ymin, LogY)

\* log scale, the data holds a 0, and the y range is the range of the
\* positive values
C10_Witness ==
    /\ pc = "plot"
    /\ LogY /\ ~argv.mean_only
    /\ ZERO \in TrialValues
    /\ limits.ymin = ONE /\ limits.ymax = 2 * ONE

=============================================================================
